---- MODULE Spec2Model ----
(***************************************************************************)
(* HttpClient (services/http/HttpClient.ts): one client instance, calls    *)
(* made one after the other.  A call is request -> executeRequestWith-     *)
(* Retries -> executeRequest; the transport (fetch), the body readers and  *)
(* the two kinds of timers (timeout, retry delay) are the environment.     *)
(***************************************************************************)
EXTENDS Integers, Sequences, FiniteSets, TLC

\* largest per-call `retries` option the callers pass
MaxRetries == 2

\* ------------------------------------------------------------------ values

NoStatus == 0 - 1
NoData == "none"

\* statuses the transport answers with
Statuses == {200, 304, 401, 403, 404, 500, 503}

\* response.headers.get('content-type'): null, or a string given by its pieces
NullContentType == [present |-> FALSE, tokens |-> <<>>]
ContentTypes ==
    { NullContentType,
      [present |-> TRUE, tokens |-> <<"application/json">>],
      [present |-> TRUE, tokens |-> <<"application/json", "; charset=utf-8">>],
      [present |-> TRUE, tokens |-> <<"text/", "plain">>],
      [present |-> TRUE, tokens |-> <<"text/", "html", "; charset=utf-8">>],
      [present |-> TRUE, tokens |-> <<"image/png">>] }

\* values a rejected promise carries: cls is the constructor (instanceof)
Thrown(cls, name, message) ==
    [cls |-> cls, name |-> name, message |-> message, status |-> NoStatus]
NoThrow == Thrown("none", "", "")
NetworkError == Thrown("TypeError", "TypeError", "Failed to fetch")
NonErrorValue == Thrown("string", "", "")
DomAbortError == Thrown("DOMException", "AbortError", "The operation was aborted.")
PlainAbortError == Thrown("Error", "AbortError", "The operation was aborted")
SyntaxError == Thrown("SyntaxError", "SyntaxError", "Unexpected token")

\* what fetch rejects with when no response arrives
TransportErrors == {NetworkError, NonErrorValue}
\* what an aborted fetch or body read rejects with: the platform's DOMException,
\* or the plain Error named AbortError the test suite's transport rejects with
AbortErrors == {DomAbortError, PlainAbortError}
\* what a body reader rejects with
DecodeErrors == {SyntaxError}

HttpError(message, status) ==
    [cls |-> "HttpError", name |-> "HttpError", message |-> message, status |-> status]
NoError == Thrown("none", "", "")

IsError(e) == e.cls \in {"Error", "TypeError", "SyntaxError", "DOMException", "HttpError"}

\* ------------------------------------------------------------------ options

\* an options object is a set of <<key, value>> pairs, at most one per key
DefaultHeaders == {<<"Content-Type", "application/json">>, <<"Accept", "application/json">>}
DefaultOptions ==
    {<<"headers", DefaultHeaders>>, <<"timeout", 30000>>, <<"retries", 1>>, <<"retryDelay", 1000>>}

HasKey(o, k) == \E p \in o : p[1] = k
Get(o, k, dflt) == IF HasKey(o, k) THEN (CHOOSE p \in o : p[1] = k)[2] ELSE dflt

\* { ...a, ...b }
Spread(a, b) == b \cup {p \in a : ~HasKey(b, p[1])}

\* the per-call options objects the callers pass
CallOptions == {{}} \cup {{<<"retries", n>>} : n \in 0..MaxRetries}

\* ------------------------------------------------------------------ state

VARIABLES
    pc,            \* where the call is: idle, fetching, decoding, delay, resolved, rejected
    isLoading,     \* HttpClient.isLoading
    mergedOptions, \* request's mergedOptions
    retriesLeft,   \* executeRequestWithRetries' retriesLeft of the current frame
    timers,        \* armed timeout timers, by the attempt that armed them
    aborted,       \* attempts whose AbortController has aborted
    response,      \* the Response of the attempt in flight
    result,        \* what the call's promise settled with
    log,           \* one entry per attempt of the current call
    call,          \* request's method, url and data
    retryDelay,    \* executeRequestWithRetries' retryDelay of the current frame
    flips          \* changes of isLoading since the current call was entered

vars == <<pc, isLoading, mergedOptions, retriesLeft, timers, aborted, response, result, log,
          call, retryDelay, flips>>

VARIABLES
    client,        \* the HttpClient: baseUrl, defaultOptions (and what it was configured with)
    sent           \* the arguments of the call's fetch(...), with the call they come from

requestVars == <<client, sent>>

VARIABLES
    instance,       \* ServiceRegistry.instance: the registry it refers to, if any
    registries,     \* the ServiceRegistry objects constructed so far, in order
    serviceObjects, \* the service objects constructed so far, in order
    returned        \* the last registry call: what it was and how it ended

registryVars == <<instance, registries, serviceObjects, returned>>

VARIABLES
    featureFlagService, \* the module's featureFlagService: the service and its flags, if made
    overrides,          \* FeatureFlagService.overrides: its own properties
    observables,        \* FeatureFlagService.observables: feature name to observable
    observableValues,   \* the observables made so far, in order: each one's current value
    flagReturned        \* the last feature flag call: what it was and what it returned

flagVars == <<featureFlagService, overrides, observables, observableValues, flagReturned>>

VARIABLES
    monitoringConfig,        \* MonitoringService.config
    initialized,             \* MonitoringService.initialized
    initializing,            \* an initialize() call is at its awaits
    performanceMeasurements, \* MonitoringService.performanceMeasurements: name to start time
    stops,                   \* the stop functions measurePerformance returned, in order
    monitoringCall           \* the last monitoring call: what it was and what it reported

monitoringVars == <<monitoringConfig, initialized, initializing, performanceMeasurements,
                    stops, monitoringCall>>

VARIABLES
    items,        \* DataService.items: the observable array's value
    dataLoading,  \* DataService.isLoading
    operations    \* the create / update / delete calls made on the service, in order

dataVars == <<items, dataLoading, operations>>

VARIABLES
    overlapping   \* the calls made on the one shared client: where each is, its retriesLeft

overlapVars == <<overlapping>>

\* the state of the call apart from the client's isLoading
callState == <<pc, mergedOptions, retriesLeft, timers, aborted, response, result, log, call,
               retryDelay, flips>>

VARIABLES
    deployPc,     \* where the deployment script is
    argv,         \* process.argv[2], "" when there is none
    environment,  \* const environment
    trace,        \* what the script printed and ran, in order
    exitCode      \* the exit code of the process, once it has ended

deployVars == <<deployPc, argv, environment, trace, exitCode>>

\* every variable, and each part of the program's variables seen from another part
allVars == <<vars, requestVars, registryVars, flagVars, monitoringVars, dataVars, overlapVars, deployVars>>
outsideCall == <<requestVars, registryVars, flagVars, monitoringVars, dataVars, overlapVars, deployVars>>
outsideRequest == <<vars, registryVars, flagVars, monitoringVars, dataVars, overlapVars, deployVars>>
outsideRegistry == <<vars, requestVars, flagVars, monitoringVars, dataVars, overlapVars, deployVars>>
outsideFlags == <<vars, requestVars, registryVars, monitoringVars, dataVars, overlapVars, deployVars>>
outsideMonitoring == <<vars, requestVars, registryVars, flagVars, dataVars, overlapVars, deployVars>>
outsideData == <<vars, requestVars, registryVars, flagVars, monitoringVars, overlapVars, deployVars>>
outsideOverlap == <<callState, requestVars, registryVars, flagVars, monitoringVars, dataVars, deployVars>>
outsideDeploy == <<vars, requestVars, registryVars, flagVars, monitoringVars, dataVars, overlapVars>>

\* ------------------------------------------------------------------ strings

\* a string is the sequence of its pieces: "/" and ":" are pieces of their own
EmptyString == <<>>
StartsWith(str, prefix) ==
    Len(str) >= Len(prefix) /\ SubSeq(str, 1, Len(prefix)) = prefix
EndsWith(str, suffix) ==
    Len(str) >= Len(suffix) /\ SubSeq(str, Len(str) - Len(suffix) + 1, Len(str)) = suffix
\* str.slice(0, -1)
DropLast(str) == SubSeq(str, 1, Len(str) - 1)

ApiBase == <<"https", ":", "/", "/", "api.example.com">>
BaseUrls == {EmptyString, ApiBase, ApiBase \o <<"/">>, <<"/", "api">>, <<"/", "api", "/">>}
Paths ==
    { <<"/", "users", "/", "1">>, <<"users", "/", "1">>, <<"users">>,
      <<"https", ":", "/", "/", "cdn.example.com", "/", "x">>,
      <<"http", ":", "/", "/", "localhost", "/", "x">> }

BuildUrlConcat(baseUrl, path) == baseUrl \o path

\* HttpClient.buildUrl
BuildUrl(baseUrl, path) ==
    IF StartsWith(path, <<"http", ":", "/", "/">>) \/ StartsWith(path, <<"https", ":", "/", "/">>)
    THEN path
    ELSE LET base == IF EndsWith(baseUrl, <<"/">>) THEN DropLast(baseUrl) ELSE baseUrl
             normalizedPath == IF StartsWith(path, <<"/">>) THEN path ELSE <<"/">> \o path
         IN  base \o normalizedPath

\* ------------------------------------------------------------------ request data

\* a JavaScript value passed as `data`
JsValue(type, num, str, bool) == [type |-> type, num |-> num, str |-> str, bool |-> bool]
Undefined == JsValue("undefined", 0, "", FALSE)
Null == JsValue("null", 0, "", FALSE)
Num(n) == JsValue("number", n, "", FALSE)
Str(text) == JsValue("string", 0, text, FALSE)
Bool(b) == JsValue("boolean", 0, "", b)
\* an object, given by its JSON text
Obj(json) == JsValue("object", 0, json, FALSE)

DataValues ==
    { Undefined, Null, Num(0), Num(7), Str(""), Str("x"), Bool(FALSE), Bool(TRUE),
      Obj("{\"name\":\"New User\"}") }

\* the condition `data ? ... : ...`
Truthy(v) ==
    CASE v.type = "undefined" -> FALSE
      [] v.type = "null" -> FALSE
      [] v.type = "number" -> v.num # 0
      [] v.type = "string" -> v.str # ""
      [] v.type = "boolean" -> v.bool
      [] OTHER -> TRUE

\* JSON.stringify of a defined value
Stringify(v) ==
    CASE v.type = "null" -> "null"
      [] v.type = "number" -> ToString(v.num)
      [] v.type = "string" -> "\"" \o v.str \o "\""
      [] v.type = "boolean" -> (IF v.bool THEN "true" ELSE "false")
      [] OTHER -> v.str

NoBody == [present |-> FALSE, text |-> ""]
\* body: data ? JSON.stringify(data) : undefined
RequestBody(data) ==
    IF Truthy(data) THEN [present |-> TRUE, text |-> Stringify(data)] ELSE NoBody

\* the defaultOptions objects clients are constructed with
ClientConfigs ==
    { {},
      {<<"headers", {<<"Authorization", "Bearer t">>}>>},
      {<<"timeout", 5000>>, <<"retries", 3>>} }

\* the per-call options objects of the request data claims
RequestOptions ==
    { {},
      {<<"headers", {<<"X-Trace", "1">>}>>},
      {<<"headers", {<<"Accept", "text/plain">>}>>},
      {<<"timeout", 100>>},
      {<<"retries", 0>>, <<"retryDelay", 50>>} }

\* new HttpClient(baseUrl, defaultOptions)
NewHttpClient(baseUrl, configured) ==
    [baseUrl |-> baseUrl, configured |-> configured,
     defaultOptions |-> Spread(DefaultOptions, configured)]

MergeHeadersCallOnly(defaults, headers) == headers

\* { ...this.defaultOptions.headers, ...headers }
MergeHeaders(defaults, headers) == Spread(defaults, headers)

MergeOptionsDefaultsWin(defaults, options) == Spread(options, defaults)

\* { ...this.defaultOptions, ...options }
MergeOptions(defaults, options) == Spread(defaults, options)

\* timeout || 30000
EffectiveTimeout(timeout) == IF timeout = 0 THEN 30000 ELSE timeout

NoCall == [method |-> "", path |-> EmptyString, data |-> Undefined, options |-> {}]
NoSent ==
    [made |-> FALSE, call |-> NoCall, url |-> EmptyString, method |-> "", headers |-> {},
     body |-> NoBody, timeout |-> 0, retries |-> 0, retryDelay |-> 0]

\* what request / executeRequestWithRetries / executeRequest hand to fetch and to
\* the timers for the call (method, path, data, options) on client c
FetchArguments(c, method, path, data, options) ==
    LET merged == MergeOptions(c.defaultOptions, options)
    IN  [made |-> TRUE,
         call |-> [method |-> method, path |-> path, data |-> data, options |-> options],
         url |-> BuildUrl(c.baseUrl, path),
         method |-> method,
         headers |-> MergeHeaders(Get(c.defaultOptions, "headers", {}), Get(merged, "headers", {})),
         body |-> RequestBody(data),
         timeout |-> EffectiveTimeout(Get(merged, "timeout", 0)),
         retries |-> Get(merged, "retries", 1),
         retryDelay |-> Get(merged, "retryDelay", 1000)]

\* ------------------------------------------------------------------ registry values

\* at most this many service objects are made outside the registry
MaxExternalServices == 1

\* ServiceRegistry.instance before the first getInstance
NoInstance == 0
\* what Map.get gives for a missing key
NoService == 0

\* the apiBaseUrl arguments: the default '', index.ts' '/api', an absolute one
ApiBaseUrls == {EmptyString, <<"/", "api">>, ApiBase}
EntityTypes == {"users", "products"}
UserServiceKey == <<"userService">>
\* `dataService:${entityType}`
DataServiceKey(entityType) == <<"dataService", ":", entityType>>
ServiceKeys ==
    {UserServiceKey, <<"authService">>} \cup {DataServiceKey(t) : t \in EntityTypes}

\* new UserService(httpClient): the service and the registry whose client it holds
NewUserService(registry) ==
    [cls |-> "UserService", httpClient |-> registry, apiPath |-> <<"/", "users">>]
\* new DataService(httpClient, apiPath)
NewDataService(registry, apiPath) ==
    [cls |-> "DataService", httpClient |-> registry, apiPath |-> apiPath]
\* a service object the caller made itself
ExternalService == [cls |-> "External", httpClient |-> NoInstance, apiPath |-> EmptyString]

NotFound(key) == Thrown("Error", "Error", <<"Service with key '", key, "' not found in registry">>)
NoReturn == [op |-> "none", registry |-> NoInstance, arg |-> EmptyString,
             value |-> NoService, threw |-> NoThrow]
Returned(op, registry, arg, value, threw) ==
    [op |-> op, registry |-> registry, arg |-> arg, value |-> value, threw |-> threw]

\* ------------------------------------------------------------------ feature flag values

\* the values a flag lookup can give: the booleans, undefined, and a function
\* every object inherits under names such as "constructor"
True == "true"
False == "false"
NoValue == "undefined"
InheritedFunction == "function"
Booleans == {True, False}

\* the names every plain object has through Object.prototype
ObjectPrototypeKeys == {"constructor"}
FeatureNames == {"new_ui", "dark_mode"} \cup ObjectPrototypeKeys

\* window.featureFlags: key (its FEATURE_ prefix apart from the rest) and value
GlobalFlagSets ==
    { {},
      {<<<<"FEATURE_", "NEW_UI">>, "'true'">>, <<<<"", "DARK_MODE">>, True>>},
      {<<<<"FEATURE_", "NEW_UI">>, "'false'">>, <<<<"FEATURE_", "DARK_MODE">>, True>>} }
\* the initialFlags objects given to getFeatureFlagService
InitialFlagSets == { {}, {<<"new_ui", False>>}, {<<"dark_mode", True>>} }

\* key.replace('FEATURE_', '').toLowerCase()
ToLowerCase(name) ==
    CASE name = "NEW_UI" -> "new_ui"
      [] name = "DARK_MODE" -> "dark_mode"
      [] OTHER -> name

NoFlagService == [made |-> FALSE, flags |-> {}]
NoFlagReturn == [op |-> "none", arg |-> "", value |-> NoValue]
FlagReturned(op, arg, value) == [op |-> op, arg |-> arg, value |-> value]

\* ------------------------------------------------------------------ monitoring values

\* at most this many measurements are started
MaxMeasurements == 2
\* a stop function is invoked at most this many times
MaxInvocations == 2

\* sample rates and Math.random() in hundredths
DefaultMonitoringConfig ==
    {<<"environment", "development">>, <<"sampleRate", 100>>, <<"enabled", TRUE>>,
     <<"errorSampleRate", 100>>, <<"traceSampleRate", 10>>}
MonitoringConfigs ==
    { {}, {<<"enabled", FALSE>>}, {<<"enabled", TRUE>>},
      {<<"sampleRate", 50>>, <<"errorSampleRate", 0>>} }
\* Math.random(): in [0, 1)
Randoms == {0, 99}
MeasurementNames == {"data_loading", "render"}

\* a missing start time
NoStartTime == 0
NoMonitoringCall == [op |-> "none", stop |-> 0, reported |-> 0]
MonitoringCall(op, stop, reported) == [op |-> op, stop |-> stop, reported |-> reported]

\* ------------------------------------------------------------------ data service values

\* at most this many create / update / delete calls are made
MaxOperations == 3

\* the ids the server gives items
ItemIds == {1, 2}
\* an item: its id and how many times it was updated
Item(id, revision) == [id |-> id, revision |-> revision]
NoItem == Item(0, 0)
\* item.id of the item given to create: it has none
NoId == 0

\* what the HttpClient rejects a call with
HttpFailures ==
    { HttpError("Request failed with status 500", 500), HttpError("Failed to fetch", 0) }

\* a call of the service as it runs: the items when it was made, how it
\* settled, what it returned or threw
Operation(kind, id, atCall) ==
    [kind |-> kind, id |-> id, atCall |-> atCall, settled |-> "pending",
     returned |-> NoItem, thrown |-> NoError]

\* ------------------------------------------------------------------ overlapping call values

\* the services that call the shared client
Callers == {"userService", "dataService"}
IdleCall == [pc |-> "idle", retriesLeft |-> 0]

\* ------------------------------------------------------------------ deployment values

\* the process has not ended
Running == 0 - 1
\* process.argv[2]: none, the three environments, other words
Arguments == {"", "development", "staging", "production", "test", "prod"}
validEnvironments == {"development", "staging", "production"}
\* config[environment].deployCommand.includes('config-zip')
DeploysZip(env) == env = "staging"

NoResponse == [status |-> NoStatus, contentType |-> NullContentType]
NoResult == [kind |-> "none", status |-> NoStatus, message |-> "", data |-> NoData, ok |-> FALSE]

\* fetch(fullUrl, {method, headers, body, signal}) and the timeout armed with it
FetchCall(arguments) ==
    [url |-> arguments.url, method |-> arguments.method, headers |-> arguments.headers,
     body |-> arguments.body, timeout |-> arguments.timeout]
NoFetch == FetchCall(NoSent)

NewEntry ==
    [resp |-> NoStatus, thrown |-> NoThrow, timedOut |-> FALSE, readers |-> <<>>,
     data |-> NoData, error |-> NoError, settled |-> "pending",
     delays |-> <<>>, sent |-> NoFetch]

\* the calls the callers make: method, url, data
Calls ==
    { [method |-> "POST", path |-> <<"/", "users", "/", "1">>,
       data |-> Obj("{\"name\":\"New User\"}")] }

attempt == Len(log)
mergedRetries == Get(mergedOptions, "retries", 1)

Init ==
    /\ pc = "idle"
    /\ isLoading = FALSE
    /\ mergedOptions = DefaultOptions
    /\ retriesLeft = 0
    /\ call = [method |-> "", path |-> EmptyString, data |-> Undefined]
    /\ retryDelay = 0
    /\ timers = {}
    /\ aborted = {}
    /\ response = NoResponse
    /\ result = NoResult
    /\ log = <<>>
    /\ flips = 0
    /\ client = NewHttpClient(EmptyString, {})
    /\ sent = NoSent
    /\ instance = NoInstance
    /\ registries = <<>>
    /\ serviceObjects = <<>>
    /\ returned = NoReturn
    /\ featureFlagService = NoFlagService
    /\ overrides = {}
    /\ observables = {}
    /\ observableValues = <<>>
    /\ flagReturned = NoFlagReturn
    /\ deployPc = "argv"
    /\ argv = ""
    /\ environment = ""
    /\ trace = <<>>
    /\ exitCode = Running
    /\ overlapping = [caller \in Callers |-> IdleCall]
    /\ items = <<>>
    /\ dataLoading = FALSE
    /\ operations = <<>>
    /\ monitoringConfig = DefaultMonitoringConfig
    /\ initialized = FALSE
    /\ initializing = FALSE
    /\ performanceMeasurements = {}
    /\ stops = <<>>
    /\ monitoringCall = NoMonitoringCall

\* ------------------------------------------------------------------ helpers

ResponseOk(status) == status >= 200 /\ status < 300

Includes(contentType, piece) ==
    contentType.present /\ \E i \in 1..Len(contentType.tokens) : contentType.tokens[i] = piece

ChooseReaderExact(contentType) ==
    IF contentType.present /\ contentType.tokens = <<"application/json">> THEN "json"
    ELSE IF Includes(contentType, "text/") THEN "text"
    ELSE "blob"

ChooseReader(contentType) ==
    IF Includes(contentType, "application/json") THEN "json"
    ELSE IF Includes(contentType, "text/") THEN "text"
    ELSE "blob"

StatusErrorNoStatus(status) == HttpError("Request failed with status " \o ToString(status), 0)

StatusError(status) == HttpError("Request failed with status " \o ToString(status), status)

TranslateErrorRethrow(e) ==
    IF e.cls = "HttpError" THEN e
    ELSE IF e.cls = "DOMException" /\ e.name = "AbortError" THEN HttpError("Request timeout", 0)
    ELSE e

TranslateErrorUnknown(e) ==
    IF e.cls = "HttpError" THEN e
    ELSE IF e.cls = "DOMException" /\ e.name = "AbortError" THEN HttpError("Request timeout", 0)
    ELSE HttpError(IF IsError(e) THEN "Unknown error" ELSE e.message, 0)

\* executeRequest's catch block
TranslateError(e) ==
    IF e.cls = "HttpError" THEN e
    ELSE IF e.cls = "DOMException" /\ e.name = "AbortError" THEN HttpError("Request timeout", 0)
    ELSE HttpError(IF IsError(e) THEN e.message ELSE "Unknown error", 0)

ShouldRetryClientErrors(error) ==
    error.cls = "HttpError" /\ (error.status = 0 \/ error.status >= 400)

ShouldRetryNetworkOnly(error) ==
    error.cls = "HttpError" /\ error.status = 0

ShouldRetry(error) ==
    IF error.cls = "HttpError"
    THEN error.status = 0 \/ (error.status >= 500 /\ error.status < 600)
    ELSE FALSE

GivesUpOneLate(left, error) == left < 0 \/ ~ShouldRetry(error)

\* the test of executeRequestWithRetries' catch block: rethrow?
GivesUp(left, error) == left <= 0 \/ ~ShouldRetry(error)

NextRetriesLeftByTwo(left) == left - 2

NextRetriesLeft(left) == left - 1

ClearTimeoutNever(armed, id) == armed

\* executeRequest's finally block
ClearTimeout(armed, id) == armed \ {id}

FinallyLoadingKept(current, callSettled) == current

FinallyLoadingPerAttempt(current, callSettled) == FALSE

\* request's finally block runs when executeRequestWithRetries has settled
FinallyLoading(current, callSettled) == IF callSettled THEN FALSE ELSE current

Flip(old, new) == IF old # new THEN 1 ELSE 0

SurfacedErrorFirst(error, entries) ==
    IF Len(entries) > 1 THEN entries[1].error ELSE error

\* what executeRequestWithRetries' catch rethrows: the error it caught, whatever
\* the earlier frames (entries) caught
SurfacedError(error, entries) == error

AwaitedDelaysNone(delay) == <<>>

\* await new Promise(resolve => setTimeout(resolve, retryDelay))
AwaitedDelays(delay) == <<delay>>

NextRetryDelayDoubled(delay) == delay * 2

\* the retryDelay the recursive call is given
NextRetryDelay(delay) == delay

\* executeRequest up to `await fetch(...)`, as attempt number id, after the
\* delays awaited, for the call made with the options merged
StartAttempt(id, entries, delays, made, merged) ==
    /\ timers' = timers \cup {id}
    /\ log' = Append(entries,
                     [NewEntry EXCEPT
                        !.delays = delays,
                        !.sent = FetchCall(FetchArguments(client, made.method, made.path,
                                                          made.data, merged))])
    /\ response' = NoResponse
    /\ pc' = "fetching"

\* the attempt in flight throws `thrown`: executeRequest's catch and finally,
\* then executeRequestWithRetries' catch, then (if it rethrows) request's finally
AttemptFails(thrown, entry) ==
    LET error == TranslateError(thrown)
        settles == GivesUp(retriesLeft, error)
        loading == FinallyLoading(isLoading, settles)
    IN  /\ timers' = ClearTimeout(timers, attempt)
        /\ log' = [log EXCEPT ![attempt] = [entry EXCEPT !.error = error, !.settled = "failed"]]
        /\ response' = NoResponse
        /\ isLoading' = loading
        /\ flips' = flips + Flip(isLoading, loading)
        /\ IF settles
           THEN /\ pc' = "rejected"
                /\ result' = [kind |-> "error", status |-> SurfacedError(error, log).status,
                              message |-> SurfacedError(error, log).message,
                              data |-> NoData, ok |-> FALSE]
           ELSE /\ pc' = "delay"
                /\ result' = result
        /\ UNCHANGED <<mergedOptions, call, retryDelay, retriesLeft, aborted>>

\* ------------------------------------------------------------------ actions

\* get/post/put/patch/delete -> request, up to the first `await fetch(...)`
Request(made, options) ==
    /\ pc \in {"idle", "resolved", "rejected"}
    /\ call' = made
    /\ mergedOptions' = MergeOptions(client.defaultOptions, options)
    /\ retriesLeft' = Get(mergedOptions', "retries", 1)
    /\ retryDelay' = Get(mergedOptions', "retryDelay", 1000)
    /\ isLoading' = TRUE
    /\ flips' = Flip(isLoading, TRUE)
    /\ aborted' = {}
    /\ result' = NoResult
    /\ StartAttempt(1, <<>>, <<>>, made, mergedOptions')

\* fetch resolves with a Response
FetchResolve(status, contentType) ==
    /\ pc = "fetching"
    /\ attempt \notin aborted
    /\ IF ~ResponseOk(status)
       THEN AttemptFails(StatusError(status), [log[attempt] EXCEPT !.resp = status])
       ELSE /\ response' = [status |-> status, contentType |-> contentType]
            /\ log' = [log EXCEPT ![attempt] =
                          [@ EXCEPT !.resp = status,
                                    !.readers = Append(@, ChooseReader(contentType))]]
            /\ pc' = "decoding"
            /\ UNCHANGED <<isLoading, mergedOptions, call, retryDelay, retriesLeft, timers, aborted,
                           result, flips>>

\* fetch rejects without a response
FetchReject(e) ==
    /\ pc = "fetching"
    /\ attempt \notin aborted
    /\ AttemptFails(e, [log[attempt] EXCEPT !.thrown = e])

\* the timeout timer of attempt id fires: controller.abort()
TimeoutFire(id) ==
    /\ id \in timers
    /\ timers' = timers \ {id}
    /\ aborted' = aborted \cup {id}
    /\ log' = IF id \in 1..Len(log) THEN [log EXCEPT ![id].timedOut = TRUE] ELSE log
    /\ UNCHANGED <<pc, isLoading, mergedOptions, call, retryDelay, retriesLeft, response, result,
                   flips>>

\* the aborted fetch, or the aborted body read, rejects
AbortReject(e) ==
    /\ pc \in {"fetching", "decoding"}
    /\ attempt \in aborted
    /\ AttemptFails(e, [log[attempt] EXCEPT !.thrown = e])

\* the body reader resolves: executeRequest returns, request's finally runs
DecodeResolve ==
    /\ pc = "decoding"
    /\ attempt \notin aborted
    /\ LET data == log[attempt].readers[1]
           loading == FinallyLoading(isLoading, TRUE)
       IN  /\ log' = [log EXCEPT ![attempt] = [@ EXCEPT !.data = data, !.settled = "ok"]]
           /\ result' = [kind |-> "response", status |-> response.status, message |-> "",
                         data |-> data, ok |-> ResponseOk(response.status)]
           /\ isLoading' = loading
           /\ flips' = flips + Flip(isLoading, loading)
    /\ timers' = ClearTimeout(timers, attempt)
    /\ response' = NoResponse
    /\ pc' = "resolved"
    /\ UNCHANGED <<mergedOptions, call, retryDelay, retriesLeft, aborted>>

\* the body reader rejects
DecodeReject(e) ==
    /\ pc = "decoding"
    /\ attempt \notin aborted
    /\ AttemptFails(e, [log[attempt] EXCEPT !.thrown = e])

\* the retry delay's timer fires: the recursive executeRequestWithRetries call
RetryDelayElapsed ==
    /\ pc = "delay"
    /\ retriesLeft' = NextRetriesLeft(retriesLeft)
    /\ retryDelay' = NextRetryDelay(retryDelay)
    /\ StartAttempt(attempt + 1, log, AwaitedDelays(retryDelay), call, mergedOptions)
    /\ UNCHANGED <<isLoading, mergedOptions, call, aborted, result, flips>>

\* the rest of the program takes no step while the call runs
OthersIdle == UNCHANGED outsideCall

Next ==
    \/ \E made \in Calls, options \in CallOptions : Request(made, options) /\ OthersIdle
    \/ \E status \in Statuses, contentType \in ContentTypes :
          FetchResolve(status, contentType) /\ OthersIdle
    \/ \E e \in TransportErrors : FetchReject(e) /\ OthersIdle
    \/ \E id \in timers : TimeoutFire(id) /\ OthersIdle
    \/ \E e \in AbortErrors : AbortReject(e) /\ OthersIdle
    \/ DecodeResolve /\ OthersIdle
    \/ \E e \in DecodeErrors : DecodeReject(e) /\ OthersIdle
    \/ RetryDelayElapsed /\ OthersIdle

Spec == Init /\ [][Next]_vars

\* an attempt's fetch or body read settles, or its timeout timer fires and the
\* aborted operation rejects
AttemptProgress ==
    \/ \E status \in Statuses, contentType \in ContentTypes :
          FetchResolve(status, contentType) /\ OthersIdle
    \/ \E e \in TransportErrors : FetchReject(e) /\ OthersIdle
    \/ \E id \in timers : TimeoutFire(id) /\ OthersIdle
    \/ \E e \in AbortErrors : AbortReject(e) /\ OthersIdle
    \/ DecodeResolve /\ OthersIdle
    \/ \E e \in DecodeErrors : DecodeReject(e) /\ OthersIdle

\* the call under timers that fire and transports that settle or time out
SpecLive ==
    /\ Init /\ [][Next]_vars
    /\ WF_vars(AttemptProgress)
    /\ WF_vars(RetryDelayElapsed /\ OthersIdle)

\* ------------------------------------------------------------------ request data

\* new HttpClient(baseUrl, defaultOptions)
NewClient(baseUrl, configured) ==
    /\ client' = NewHttpClient(baseUrl, configured)
    /\ sent' = NoSent
    /\ UNCHANGED outsideRequest

\* get / delete: no data; the call up to fetch(...).  The arguments depend on
\* the client and the call alone, never on an earlier call, so the calls of a
\* client are followed one at a time from the client as constructed.
SendWithoutData(method, path, options) ==
    /\ ~sent.made
    /\ sent' = FetchArguments(client, method, path, Undefined, options)
    /\ UNCHANGED <<client, outsideRequest>>

\* post / put / patch: the call up to fetch(...)
SendWithData(method, path, data, options) ==
    /\ ~sent.made
    /\ sent' = FetchArguments(client, method, path, data, options)
    /\ UNCHANGED <<client, outsideRequest>>

RequestNext ==
    \/ \E baseUrl \in BaseUrls, configured \in ClientConfigs : NewClient(baseUrl, configured)
    \/ \E method \in {"GET", "DELETE"}, path \in Paths, options \in RequestOptions :
          SendWithoutData(method, path, options)
    \/ \E method \in {"POST", "PUT", "PATCH"}, path \in Paths, data \in DataValues,
          options \in RequestOptions : SendWithData(method, path, data, options)

\* the construction of a request: clients and the arguments their calls give fetch
SpecRequest == Init /\ [][RequestNext]_allVars

\* ------------------------------------------------------------------ ServiceRegistry

NeedsInstanceAlways(inst) == TRUE

\* !ServiceRegistry.instance
NeedsInstance(inst) == inst = NoInstance

NeedsDataServiceAlways(services, key) == TRUE

\* !this.services.has(serviceKey)
NeedsDataService(services, key) == ~HasKey(services, key)

\* this.services.set(key, service)
SetService(services, key, service) == Spread(services, {<<key, service>>})

\* new ServiceRegistry(apiBaseUrl), as the next registry; its user service is
\* the next service object
NewServiceRegistry(apiBaseUrl, userService) ==
    [httpClient |-> NewHttpClient(apiBaseUrl, {}),
     services |-> SetService({}, UserServiceKey, userService)]

\* ServiceRegistry.getInstance(apiBaseUrl), under the name it was called by
GetInstanceAs(op, apiBaseUrl) ==
    /\ IF NeedsInstance(instance)
          THEN /\ serviceObjects' = Append(serviceObjects, NewUserService(Len(registries) + 1))
               /\ registries' = Append(registries,
                                  NewServiceRegistry(apiBaseUrl, Len(serviceObjects) + 1))
               /\ instance' = Len(registries) + 1
          ELSE UNCHANGED <<instance, registries, serviceObjects>>
    /\ returned' = Returned(op, NoInstance, apiBaseUrl, instance', NoThrow)
    /\ UNCHANGED outsideRegistry

GetInstance(apiBaseUrl) == GetInstanceAs("getInstance", apiBaseUrl)

\* getServiceRegistry(apiBaseUrl)
GetServiceRegistry(apiBaseUrl) == GetInstanceAs("getServiceRegistry", apiBaseUrl)

\* this.services.get(key), and the throw for a missing one
Lookup(op, r, arg, services, key) ==
    IF HasKey(services, key)
      THEN Returned(op, r, arg, Get(services, key, NoService), NoThrow)
      ELSE Returned(op, r, arg, NoService, NotFound(key))

\* registry.getService(key)
GetService(r, key) ==
    /\ returned' = Lookup("getService", r, key, registries[r].services, key)
    /\ UNCHANGED <<instance, registries, serviceObjects, outsideRegistry>>

\* registry.getUserService()
GetUserService(r) ==
    /\ returned' = Lookup("getUserService", r, EmptyString, registries[r].services,
                          UserServiceKey)
    /\ UNCHANGED <<instance, registries, serviceObjects, outsideRegistry>>

\* registry.getDataService(entityType)
GetDataService(r, entityType) ==
    LET serviceKey == DataServiceKey(entityType)
        services == registries[r].services
    IN  /\ IF NeedsDataService(services, serviceKey)
              THEN /\ serviceObjects' =
                        Append(serviceObjects, NewDataService(r, <<"/", entityType>>))
                   /\ registries' =
                        [registries EXCEPT ![r].services =
                            SetService(services, serviceKey, Len(serviceObjects) + 1)]
              ELSE UNCHANGED <<registries, serviceObjects>>
        /\ returned' = Lookup("getDataService", r, entityType, registries'[r].services,
                              serviceKey)
        /\ UNCHANGED <<instance, outsideRegistry>>

\* the services the callers made themselves
ExternalServices == {i \in DOMAIN serviceObjects : serviceObjects[i] = ExternalService}

\* registry.registerService(key, service) with a service the caller made before
RegisterService(r, key, service) ==
    /\ registries' = [registries EXCEPT ![r].services = SetService(@, key, service)]
    /\ returned' = Returned("registerService", r, key, service, NoThrow)
    /\ UNCHANGED <<instance, serviceObjects, outsideRegistry>>

\* registry.registerService(key, service) with a service the caller just made
RegisterNewService(r, key) ==
    /\ Cardinality(ExternalServices) < MaxExternalServices
    /\ serviceObjects' = Append(serviceObjects, ExternalService)
    /\ registries' = [registries EXCEPT
                        ![r].services = SetService(@, key, Len(serviceObjects) + 1)]
    /\ returned' = Returned("registerService", r, key, Len(serviceObjects) + 1, NoThrow)
    /\ UNCHANGED <<instance, outsideRegistry>>

RegistryNext ==
    \/ \E apiBaseUrl \in ApiBaseUrls : GetInstance(apiBaseUrl)
    \/ \E apiBaseUrl \in ApiBaseUrls : GetServiceRegistry(apiBaseUrl)
    \/ \E r \in DOMAIN registries, key \in ServiceKeys : GetService(r, key)
    \/ \E r \in DOMAIN registries : GetUserService(r)
    \/ \E r \in DOMAIN registries, entityType \in EntityTypes : GetDataService(r, entityType)
    \/ \E r \in DOMAIN registries, key \in ServiceKeys, service \in ExternalServices :
          RegisterService(r, key, service)
    \/ \E r \in DOMAIN registries, key \in ServiceKeys : RegisterNewService(r, key)

\* the registry and its callers
SpecRegistry == Init /\ [][RegistryNext]_allVars

\* ------------------------------------------------------------------ FeatureFlagService

\* key in object: own properties and those of Object.prototype
In(key, object) == HasKey(object, key) \/ key \in ObjectPrototypeKeys

\* object[key]
GetProp(object, key) ==
    IF HasKey(object, key) THEN Get(object, key, NoValue)
    ELSE IF key \in ObjectPrototypeKeys THEN InheritedFunction ELSE NoValue

\* value === true
StrictTrue(value) == IF value = True THEN True ELSE False

\* FeatureFlagService.loadFlagsFromEnvironment
LoadFlagsFromEnvironment(globalFlags) ==
    { <<ToLowerCase(p[1][2]), IF p[2] \in {"'true'", True} THEN True ELSE False>> :
        p \in {q \in globalFlags : q[1][1] = "FEATURE_"} }

\* new FeatureFlagService(initialFlags)
NewFeatureFlagService(globalFlags, initialFlags) ==
    [made |-> TRUE, flags |-> Spread(LoadFlagsFromEnvironment(globalFlags), initialFlags)]

\* FeatureFlagService.isEnabled
IsEnabled(flags, over, featureName) ==
    IF In(featureName, over)
      THEN GetProp(over, featureName)
      ELSE StrictTrue(GetProp(flags, featureName))

\* this.observables.has(featureName)
HasObservable(obs, featureName) == HasKey(obs, featureName)

\* getFeatureFlagService(initialFlags), with window.featureFlags as it is then
GetFeatureFlagService(globalFlags, initialFlags) ==
    /\ featureFlagService' =
          IF ~featureFlagService.made
            THEN NewFeatureFlagService(globalFlags, initialFlags)
            ELSE featureFlagService
    /\ flagReturned' = FlagReturned("getFeatureFlagService", "", NoValue)
    /\ UNCHANGED <<overrides, observables, observableValues, outsideFlags>>

\* featureFlagService.isEnabled(featureName)
IsEnabledCall(featureName) ==
    /\ featureFlagService.made
    /\ flagReturned' = FlagReturned("isEnabled", featureName,
                                    IsEnabled(featureFlagService.flags, overrides, featureName))
    /\ UNCHANGED <<featureFlagService, overrides, observables, observableValues, outsideFlags>>

\* featureFlagService.observe(featureName): the observable returned is value
Observe(featureName) ==
    /\ featureFlagService.made
    /\ IF ~HasObservable(observables, featureName)
          THEN /\ observableValues' =
                    Append(observableValues,
                           IsEnabled(featureFlagService.flags, overrides, featureName))
               /\ observables' =
                    Spread(observables, {<<featureName, Len(observableValues) + 1>>})
          ELSE UNCHANGED <<observables, observableValues>>
    /\ flagReturned' = FlagReturned("observe", featureName,
                                    Get(observables', featureName, 0))
    /\ UNCHANGED <<featureFlagService, overrides, outsideFlags>>

\* featureFlagService.override(featureName, enabled)
Override(featureName, enabled) ==
    /\ featureFlagService.made
    /\ overrides' = Spread(overrides, {<<featureName, enabled>>})
    /\ observableValues' =
          IF HasObservable(observables, featureName)
            THEN [observableValues EXCEPT ![Get(observables, featureName, 0)] = enabled]
            ELSE observableValues
    /\ flagReturned' = FlagReturned("override", featureName, enabled)
    /\ UNCHANGED <<featureFlagService, observables, outsideFlags>>

\* featureFlagService.resetOverrides()
ResetOverrides ==
    /\ featureFlagService.made
    /\ overrides' = {}
    /\ observableValues' =
          [id \in DOMAIN observableValues |->
              LET featureName == (CHOOSE p \in observables : p[2] = id)[1]
              IN  StrictTrue(GetProp(featureFlagService.flags, featureName))]
    /\ flagReturned' = FlagReturned("resetOverrides", "", NoValue)
    /\ UNCHANGED <<featureFlagService, observables, outsideFlags>>

FlagsNext ==
    \/ \E globalFlags \in GlobalFlagSets, initialFlags \in InitialFlagSets :
          GetFeatureFlagService(globalFlags, initialFlags)
    \/ \E featureName \in FeatureNames : IsEnabledCall(featureName)
    \/ \E featureName \in FeatureNames : Observe(featureName)
    \/ \E featureName \in FeatureNames, enabled \in Booleans : Override(featureName, enabled)
    \/ ResetOverrides

\* the feature flag service and its callers
SpecFlags == Init /\ [][FlagsNext]_allVars

\* ------------------------------------------------------------------ MonitoringService

\* !this.initialized || !this.config.enabled
MonitoringOff(config, isInitialized) == ~isInitialized \/ ~Get(config, "enabled", FALSE)

\* rate || 1.0
RateOrOne(rate) == IF rate = 0 THEN 100 ELSE rate

\* Math.random() > (rate || 1.0)
Sampled(random, rate) == ~(random > RateOrOne(rate))

\* how many reports reportMetric / reportError make, by the rate they sample with
Reports(config, isInitialized, random, rateKey) ==
    IF MonitoringOff(config, isInitialized) THEN 0
    ELSE IF Sampled(random, Get(config, rateKey, 0)) THEN 1 ELSE 0

\* performance.now() at a measurePerformance call: positive, later calls later
Now == Len(stops) + 1

\* const startTime = this.performanceMeasurements[name]
StartTimeOf(measurements, name) == Get(measurements, name, NoStartTime)

\* if (startTime)
HasStartTime(startTime) == startTime # NoStartTime

\* monitoringService.initialize(config), up to its first await
InitializeStart(config) ==
    /\ ~initializing
    /\ monitoringConfig' = Spread(monitoringConfig, config)
    /\ initializing' = Get(monitoringConfig', "enabled", FALSE)
    /\ monitoringCall' = MonitoringCall("initialize", 0, 0)
    /\ UNCHANGED <<initialized, performanceMeasurements, stops, outsideMonitoring>>

\* initialize after its awaits: this.initialized = true
InitializeFinish ==
    /\ initializing
    /\ initialized' = TRUE
    /\ initializing' = FALSE
    /\ monitoringCall' = MonitoringCall("initialized", 0, 0)
    /\ UNCHANGED <<monitoringConfig, performanceMeasurements, stops, outsideMonitoring>>

\* monitoringService.reportError(error, context)
ReportError(random) ==
    /\ monitoringCall' =
          MonitoringCall("reportError", 0,
                         Reports(monitoringConfig, initialized, random, "errorSampleRate"))
    /\ UNCHANGED <<monitoringConfig, initialized, initializing, performanceMeasurements,
                   stops, outsideMonitoring>>

\* monitoringService.reportMetric(metric)
ReportMetric(random) ==
    /\ monitoringCall' =
          MonitoringCall("reportMetric", 0,
                         Reports(monitoringConfig, initialized, random, "sampleRate"))
    /\ UNCHANGED <<monitoringConfig, initialized, initializing, performanceMeasurements,
                   stops, outsideMonitoring>>

\* monitoringService.setUser(userId, userInfo)
SetUser ==
    /\ monitoringCall' =
          MonitoringCall("setUser", 0,
                         IF MonitoringOff(monitoringConfig, initialized) THEN 0 ELSE 1)
    /\ UNCHANGED <<monitoringConfig, initialized, initializing, performanceMeasurements,
                   stops, outsideMonitoring>>

\* monitoringService.measurePerformance(name)
MeasurePerformance(name) ==
    /\ Len(stops) < MaxMeasurements
    /\ IF MonitoringOff(monitoringConfig, initialized)
          THEN /\ stops' = Append(stops, [name |-> name, noop |-> TRUE, invoked |-> 0])
               /\ UNCHANGED performanceMeasurements
          ELSE /\ performanceMeasurements' =
                    Spread(performanceMeasurements, {<<name, Now>>})
               /\ stops' = Append(stops, [name |-> name, noop |-> FALSE, invoked |-> 0])
    /\ monitoringCall' = MonitoringCall("measurePerformance", Len(stops'), 0)
    /\ UNCHANGED <<monitoringConfig, initialized, initializing, outsideMonitoring>>

\* the stop function id is invoked
Stop(id, random) ==
    LET name == stops[id].name
        startTime == StartTimeOf(performanceMeasurements, name)
        reports == ~stops[id].noop /\ HasStartTime(startTime)
    IN  /\ stops[id].invoked < MaxInvocations
        /\ stops' = [stops EXCEPT ![id].invoked = @ + 1]
        /\ performanceMeasurements' =
              IF reports THEN {p \in performanceMeasurements : p[1] # name}
              ELSE performanceMeasurements
        /\ monitoringCall' =
              MonitoringCall("stop", id,
                  IF reports
                    THEN Reports(monitoringConfig, initialized, random, "sampleRate")
                    ELSE 0)
        /\ UNCHANGED <<monitoringConfig, initialized, initializing, outsideMonitoring>>

MonitoringNext ==
    \/ \E config \in MonitoringConfigs : InitializeStart(config)
    \/ InitializeFinish
    \/ \E random \in Randoms : ReportError(random)
    \/ \E random \in Randoms : ReportMetric(random)
    \/ SetUser
    \/ \E name \in MeasurementNames : MeasurePerformance(name)
    \/ \E id \in DOMAIN stops, random \in Randoms : Stop(id, random)

\* the monitoring service and its callers
SpecMonitoring == Init /\ [][MonitoringNext]_allVars

\* ------------------------------------------------------------------ UserService

NullUser == "null"

HasStatus(error) == error.status # NoStatus

\* BaseService.handleError: rethrows an Error, wraps anything else
HandleError(error, defaultMessage) ==
    [kind |-> "throw", value |-> NoData,
     error |-> IF IsError(error) THEN error ELSE Thrown("Error", "Error", defaultMessage)]

GetCurrentUserOnly401(outcome, error) ==
    IF outcome.kind = "response"
    THEN [kind |-> "return", value |-> outcome.data, error |-> NoError]
    ELSE IF IsError(error) /\ HasStatus(error) /\ error.status = 401
    THEN [kind |-> "return", value |-> NullUser, error |-> NoError]
    ELSE HandleError(error, "Failed to get current user")

\* UserService.getCurrentUser, given what httpClient.get settled with
GetCurrentUser(outcome, error) ==
    IF outcome.kind = "response"
    THEN [kind |-> "return", value |-> outcome.data, error |-> NoError]
    ELSE IF IsError(error) /\ HasStatus(error) /\ (error.status = 401 \/ error.status = 403)
    THEN [kind |-> "return", value |-> NullUser, error |-> NoError]
    ELSE HandleError(error, "Failed to get current user")

\* ------------------------------------------------------------------ DataService

\* seq.filter(keep)
RECURSIVE Filter(_, _)
Filter(seq, id) ==
    IF seq = <<>> THEN <<>>
    ELSE (IF seq[1].id # id THEN <<seq[1]>> ELSE <<>>) \o Filter(Tail(seq), id)

CurrentItemsAtCall(now, atCall) == atCall

\* const currentItems = this.items(), read once the response is there
CurrentItems(now, atCall) == now

\* [...currentItems, newItem]
Created(currentItems, newItem) == Append(currentItems, newItem)

UpdatedOrAdded(currentItems, id, updatedItem) ==
    IF \E k \in DOMAIN currentItems : currentItems[k].id = id
      THEN [k \in DOMAIN currentItems |->
               IF currentItems[k].id = id THEN updatedItem ELSE currentItems[k]]
      ELSE Append(currentItems, updatedItem)

\* currentItems.map(existingItem => existingItem.id === id ? updatedItem : existingItem)
Updated(currentItems, id, updatedItem) ==
    [k \in DOMAIN currentItems |->
        IF currentItems[k].id = id THEN updatedItem ELSE currentItems[k]]

\* currentItems.filter(item => item.id !== id)
Deleted(currentItems, id) == Filter(currentItems, id)

\* the message handleError falls back to
DefaultMessage(kind) ==
    CASE kind = "create" -> "Failed to create item"
      [] kind = "update" -> "Failed to update item with ID"
      [] OTHER -> "Failed to delete item with ID"

\* create / update / delete up to `await this.httpClient...`
StartOperation(kind, id) ==
    /\ Len(operations) < MaxOperations
    /\ dataLoading' = TRUE
    /\ operations' = Append(operations, Operation(kind, id, items))
    /\ UNCHANGED <<items, outsideData>>

\* dataService.create(item)
Create == StartOperation("create", NoId)

\* dataService.update(id, item)
Update(id) == StartOperation("update", id)

\* dataService.delete(id)
Delete(id) == StartOperation("delete", id)

\* the HTTP call of operation k resolves with data: the rest of the try
\* block, then finally
HttpResolves(k, data) ==
    LET op == operations[k]
        currentItems == CurrentItems(items, op.atCall)
    IN  /\ op.settled = "pending"
        /\ items' = CASE op.kind = "create" -> Created(currentItems, data)
                       [] op.kind = "update" -> Updated(currentItems, op.id, data)
                       [] OTHER -> Deleted(currentItems, op.id)
        /\ operations' =
              [operations EXCEPT ![k] =
                  [op EXCEPT !.settled = "resolved",
                             !.returned = IF op.kind = "delete" THEN NoItem ELSE data]]
        /\ dataLoading' = FALSE
        /\ UNCHANGED outsideData

\* the HTTP call of operation k rejects: catch, then finally
HttpRejects(k, error) ==
    LET op == operations[k]
    IN  /\ op.settled = "pending"
        /\ operations' =
              [operations EXCEPT ![k] =
                  [op EXCEPT !.settled = "rejected",
                             !.thrown = HandleError(error, DefaultMessage(op.kind)).error]]
        /\ dataLoading' = FALSE
        /\ UNCHANGED <<items, outsideData>>

\* the data the server answers operation k with
ResponseData(k) ==
    CASE operations[k].kind = "create" -> {Item(id, 0) : id \in ItemIds}
      [] operations[k].kind = "update" -> {Item(operations[k].id, 1)}
      [] OTHER -> {NoItem}

DataNext ==
    \/ Create
    \/ \E id \in ItemIds : Update(id)
    \/ \E id \in ItemIds : Delete(id)
    \/ \E k \in DOMAIN operations : \E data \in ResponseData(k) : HttpResolves(k, data)
    \/ \E k \in DOMAIN operations, error \in HttpFailures : HttpRejects(k, error)

\* a data service and its callers
SpecData == Init /\ [][DataNext]_allVars

\* ------------------------------------------------------------------ overlapping calls

\* the errors an attempt of such a call fails with
AttemptErrors == {StatusError(503), StatusError(404)}

\* a service calls the client: request up to the first `await fetch(...)`
Enter(caller, options) ==
    /\ overlapping[caller].pc \in {"idle", "resolved", "rejected"}
    /\ isLoading' = TRUE
    /\ overlapping' =
          [overlapping EXCEPT ![caller] =
              [pc |-> "fetching",
               retriesLeft |-> Get(MergeOptions(client.defaultOptions, options), "retries", 1)]]
    /\ UNCHANGED outsideOverlap

\* the attempt of the caller's call succeeds: request's finally
AttemptSucceeds(caller) ==
    /\ overlapping[caller].pc = "fetching"
    /\ isLoading' = FinallyLoading(isLoading, TRUE)
    /\ overlapping' = [overlapping EXCEPT ![caller].pc = "resolved"]
    /\ UNCHANGED outsideOverlap

\* the attempt of the caller's call fails: executeRequestWithRetries' catch,
\* and request's finally when it rethrows
AttemptFailsWith(caller, error) ==
    LET settles == GivesUp(overlapping[caller].retriesLeft, error)
    IN  /\ overlapping[caller].pc = "fetching"
        /\ isLoading' = FinallyLoading(isLoading, settles)
        /\ overlapping' =
              [overlapping EXCEPT ![caller].pc = IF settles THEN "rejected" ELSE "delay"]
        /\ UNCHANGED outsideOverlap

\* the retry delay of the caller's call elapses
DelayElapsed(caller) ==
    /\ overlapping[caller].pc = "delay"
    /\ overlapping' =
          [overlapping EXCEPT
              ![caller] = [pc |-> "fetching", retriesLeft |-> NextRetriesLeft(@.retriesLeft)]]
    /\ UNCHANGED <<isLoading, outsideOverlap>>

OverlapNext ==
    \/ \E caller \in Callers, options \in CallOptions : Enter(caller, options)
    \/ \E caller \in Callers : AttemptSucceeds(caller)
    \/ \E caller \in Callers, error \in AttemptErrors : AttemptFailsWith(caller, error)
    \/ \E caller \in Callers : DelayElapsed(caller)

\* two services calling the one HttpClient of the registry
SpecOverlap == Init /\ [][OverlapNext]_allVars

\* ------------------------------------------------------------------ deployment script

\* process.argv[2] || 'development'
EnvironmentOf(argument) == IF argument = "" THEN "development" ELSE argument

\* the script goes on to position next, having printed or run the events
Goes(next, events) ==
    /\ deployPc' = next
    /\ trace' = trace \o events
    /\ UNCHANGED <<argv, environment, exitCode, outsideDeploy>>

\* process.exit(code), or the process ending by itself
Exits(code, events) ==
    /\ deployPc' = "exited"
    /\ trace' = trace \o events
    /\ exitCode' = code
    /\ UNCHANGED <<argv, environment, outsideDeploy>>

\* node scripts/deploy.js [argument]: the validation of the environment
Validate(argument) ==
    /\ deployPc = "argv"
    /\ argv' = argument
    /\ environment' = EnvironmentOf(argument)
    /\ IF environment' \in validEnvironments
          THEN /\ deployPc' = "envFile"
               /\ trace' = <<"Deploying">>
          ELSE /\ deployPc' = "invalid"
               /\ trace' = <<"Error: Invalid environment">>
    /\ UNCHANGED <<exitCode, outsideDeploy>>

\* process.exit(1) after the invalid environment's message
InvalidExit ==
    /\ deployPc = "invalid"
    /\ Exits(1, <<>>)

\* the environment file is copied (or the copy throws), or its absence warned of
EnvFile(exists, copies) ==
    /\ deployPc = "envFile"
    /\ IF ~exists THEN Goes("build", <<"Warning: Environment file not found">>)
       ELSE IF copies THEN Goes("build", <<"Using environment file", "copied">>)
       ELSE Goes("catch", <<"Using environment file", "copy failed">>)

\* console.log(`Running build command: ...`); execSync(buildCommand) starts
BuildStart ==
    /\ deployPc = "build"
    /\ Goes("building", <<"Running build command", "build started">>)

\* execSync(envConfig.buildCommand) returns or throws
BuildEnd(succeeds) ==
    /\ deployPc = "building"
    /\ IF succeeds
          THEN Goes(IF DeploysZip(environment) THEN "zip" ELSE "deploy", <<"build completed">>)
          ELSE Goes("catch", <<"build failed">>)

\* the else branch: console.log(`Running deploy command: ...`); execSync starts
DeployStart ==
    /\ deployPc = "deploy"
    /\ Goes("deploying", <<"Running deploy command", "deploy started">>)

\* the else branch: execSync(envConfig.deployCommand) returns or throws
DeployEnd(succeeds) ==
    /\ deployPc = "deploying"
    /\ IF succeeds
          THEN Goes("success", <<"deploy completed">>)
          ELSE Goes("catch", <<"deploy failed">>)

\* the zip branch: the archive is set up and finalize() called; the close
\* callback runs later
Zip ==
    /\ deployPc = "zip"
    /\ Goes("success", <<"Creating deployment zip file">>)

\* console.log(`Successfully deployed to ${environment} environment!`), the
\* end of the script's own run
Success ==
    /\ deployPc = "success"
    /\ IF DeploysZip(environment)
          THEN Goes("archiving", <<"Successfully deployed">>)
          ELSE Exits(0, <<"Successfully deployed">>)

\* catch (error): console.error(`Deployment failed: ...`)
Catch ==
    /\ deployPc = "catch"
    /\ Goes("failed", <<"Deployment failed">>)

\* catch (error): process.exit(1)
CatchExit ==
    /\ deployPc = "failed"
    /\ Exits(1, <<>>)

\* output's close callback: the deploy command starts, outside the try
ZipClosed ==
    /\ deployPc = "archiving"
    /\ Goes("zipDeploying", <<"Zip file created", "Running deploy command", "deploy started">>)

\* output's close callback: execSync(envConfig.deployCommand) returns, or
\* throws with nothing to catch it
ZipDeployEnd(succeeds) ==
    /\ deployPc = "zipDeploying"
    /\ IF succeeds
          THEN Exits(0, <<"deploy completed">>)
          ELSE Exits(1, <<"deploy failed", "uncaught exception">>)

\* archive's error callback: throw err outside the try
ZipFailed ==
    /\ deployPc = "archiving"
    /\ Exits(1, <<"archive failed", "uncaught exception">>)

DeployNext ==
    \/ \E argument \in Arguments : Validate(argument)
    \/ InvalidExit
    \/ \E exists \in BOOLEAN, copies \in BOOLEAN : EnvFile(exists, copies)
    \/ BuildStart
    \/ \E succeeds \in BOOLEAN : BuildEnd(succeeds)
    \/ DeployStart
    \/ \E succeeds \in BOOLEAN : DeployEnd(succeeds)
    \/ Zip
    \/ Success
    \/ Catch
    \/ CatchExit
    \/ ZipClosed
    \/ \E succeeds \in BOOLEAN : ZipDeployEnd(succeeds)
    \/ ZipFailed

\* one run of the deployment script
SpecDeploy == Init /\ [][DeployNext]_allVars

\* ------------------------------------------------------------------ claims

InCall == pc \in {"fetching", "decoding", "delay"}
Terminal == pc \in {"resolved", "rejected"}
Retryable(status) == status = 0 \/ (status >= 500 /\ status < 600)
Settled(i) == log[i].settled # "pending"

\* C1: a call whose merged retries value is n starts at most n+1 attempts, and
\* retriesLeft never increases during the call: it changes only by dropping by
\* exactly 1 at the step that starts a re-attempt (and is set afresh by a new call).
C1_RetryBudget ==
    [][ /\ Len(log') <= mergedRetries' + 1
        /\ retriesLeft' >= 0
        /\ (retriesLeft' # retriesLeft \/ Len(log') > Len(log)) =>
              \/ ~InCall /\ pc' = "fetching" /\ Len(log') = 1 /\ retriesLeft' = mergedRetries'
              \/ /\ pc = "delay" /\ pc' = "fetching"
                 /\ retriesLeft' = retriesLeft - 1
                 /\ Len(log') = Len(log) + 1 ]_vars

C1_Witness ==
    /\ pc = "rejected"
    /\ mergedRetries = MaxRetries
    /\ Len(log) = MaxRetries + 1
    /\ retriesLeft = 0

\* the step in which the attempt in flight fails
AttemptFailsStep ==
    /\ Len(log) > 0 /\ Len(log') = Len(log)
    /\ log[Len(log)].settled = "pending"
    /\ log'[Len(log)].settled = "failed"

\* C2: a failed attempt is followed by another attempt iff the remaining budget
\* is > 0 and the failure's status is 0 or in [500,600); any other failure ends
\* the call at that attempt, with no further transport call.
C2_RetryIffRetryable ==
    [][ /\ AttemptFailsStep =>
              LET status == log'[Len(log)].error.status
                  again == retriesLeft > 0 /\ Retryable(status)
              IN  /\ again => pc' = "delay"
                  /\ ~again => pc' = "rejected" /\ result'.kind = "error" /\ result'.status = status
        /\ (pc = "delay" /\ pc' # pc) => pc' = "fetching" /\ Len(log') = Len(log) + 1
        /\ (pc = "rejected" /\ log' # log) => Len(log') = 1 /\ result'.kind = "none" ]_vars

C2_Witness ==
    /\ pc = "rejected"
    /\ mergedRetries = MaxRetries
    /\ Len(log) = 1
    /\ log[1].resp = 404
    /\ retriesLeft = MaxRetries

\* C3: when the transport answers every attempt of a call with status 500, the
\* call with retries = n ends only after exactly n+1 attempts, rejected with an
\* HttpError of status 500.
C3_AlwaysServerError ==
    (Terminal /\ \A i \in 1..Len(log) : log[i].resp = 500) =>
        /\ pc = "rejected"
        /\ Len(log) = mergedRetries + 1
        /\ result.kind = "error"
        /\ result.status = 500

C3_Witness ==
    /\ Terminal
    /\ mergedRetries = MaxRetries
    /\ Len(log) = MaxRetries + 1
    /\ \A i \in 1..Len(log) : log[i].resp = 500

C5_TimeoutReported ==
    /\ \A i \in 1..Len(log) :
          (log[i].timedOut /\ Settled(i)) =>
              /\ log[i].error.cls = "HttpError"
              /\ log[i].error.status = 0
              /\ log[i].error.message = "Request timeout"
    /\ (Terminal /\ log[Len(log)].timedOut) =>
          /\ pc = "rejected"
          /\ result.status = 0
          /\ result.message = "Request timeout"

InFlight == pc \in {"fetching", "decoding"}

TimerScoped ==
    /\ Cardinality(timers) <= 1
    /\ timers \subseteq {attempt}
    /\ timers # {} => InFlight /\ attempt \notin aborted
    /\ ~InFlight => timers = {}
    /\ aborted \subseteq 1..Len(log)

\* C6: at most one timeout timer is armed; it is the one armed at the start of
\* the attempt in flight and it is cleared when that attempt settles, so none is
\* armed during a retry delay or after the call settled; a timer aborts only the
\* attempt that armed it, while that attempt is in flight.
C6_TimerPerAttempt ==
    [][ /\ TimerScoped'
        /\ timers' \ timers # {} =>
              /\ pc' = "fetching"
              /\ timers' = {Len(log')}
              /\ log'[Len(log')].settled = "pending"
              /\ Len(log') = 1 \/ Len(log') = Len(log) + 1
        /\ aborted' \ aborted # {} =>
              /\ InFlight /\ pc' = pc
              /\ attempt \in timers
              /\ aborted' = aborted \cup {attempt} ]_vars

C6_Witness ==
    /\ pc = "delay"
    /\ Len(log) = 2
    /\ ~log[1].timedOut /\ log[2].timedOut
    /\ timers = {}

\* C7: once fetch has resolved with a status, a firing of the attempt's timeout
\* changes nothing: the attempt does not fail with the abort's error and is not
\* reported as "Request timeout".
C7_FiringAfterResponseIsNoOp ==
    \A i \in 1..Len(log) :
        log[i].resp # NoStatus =>
            /\ log[i].thrown \notin AbortErrors
            /\ log[i].error.message # "Request timeout"

\* C8: isLoading is false before a call, true from call entry across every
\* attempt and retry delay, false once the call resolved or rejected: one
\* false->true and one true->false change per call.
C8_LoadingPerCall ==
    /\ isLoading <=> InCall
    /\ pc = "idle" => flips = 0
    /\ InCall => flips = 1
    /\ Terminal => flips = 2

C8_Witness ==
    /\ pc = "delay"
    /\ Len(log) = 2
    /\ isLoading
    /\ flips = 1

\* C9: an attempt whose response has a status outside [200,300) fails with an
\* HttpError of exactly that status and the message "Request failed with status
\* {status}", and no body reader is invoked for that response.
C9_NonOkStatusRaises ==
    \A i \in 1..Len(log) :
        (log[i].resp # NoStatus /\ ~(log[i].resp >= 200 /\ log[i].resp < 300)) =>
            /\ log[i].settled = "failed"
            /\ log[i].error.cls = "HttpError"
            /\ log[i].error.status = log[i].resp
            /\ log[i].error.message = "Request failed with status " \o ToString(log[i].resp)
            /\ log[i].readers = <<>>
            /\ log[i].data = NoData

C9_Witness ==
    /\ Len(log) = 2
    /\ log[1].resp = 503
    /\ log[2].resp = 404
    /\ log[2].error.message = "Request failed with status 404"

\* an Error thrown by fetch itself that is neither an HttpError nor an abort
ThrewNetworkError(i) ==
    /\ log[i].resp = NoStatus
    /\ IsError(log[i].thrown)
    /\ log[i].thrown.cls # "HttpError"
    /\ log[i].thrown \notin AbortErrors

C11_DecodeFailureNotWrapped ==
    \A i \in 1..Len(log) :
        (ResponseOk(log[i].resp) /\ log[i].thrown \in DecodeErrors) =>
            /\ log[i].error.cls # "HttpError"
            /\ log[i].error = log[i].thrown
            /\ Len(log) = i
            /\ pc = "rejected"

\* the reader the declared content type asks for: its media type decides
MediaType(contentType) ==
    IF ~contentType.present THEN "none"
    ELSE IF contentType.tokens[1] = "application/json" THEN "application/json"
    ELSE IF contentType.tokens[1] = "text/" THEN "text/*"
    ELSE "other"

ReaderFor(contentType) ==
    CASE MediaType(contentType) = "application/json" -> "json"
      [] MediaType(contentType) = "text/*" -> "text"
      [] OTHER -> "blob"

\* C15: for a 2xx response exactly one body reader is invoked, the one the
\* declared content type selects: application/json -> json, text/* -> text,
\* anything else or no header -> blob; a non-2xx response invokes none.
C15_ReaderByContentType ==
    /\ \A i \in 1..Len(log) :
          /\ log[i].resp # NoStatus =>
                Len(log[i].readers) = (IF log[i].resp >= 200 /\ log[i].resp < 300 THEN 1 ELSE 0)
          /\ log[i].resp = NoStatus => log[i].readers = <<>>
          /\ log[i].data # NoData => log[i].data = log[i].readers[1]
    /\ pc = "decoding" => log[attempt].readers = <<ReaderFor(response.contentType)>>

C15_Witness ==
    /\ pc = "decoding"
    /\ response.contentType.present
    /\ response.contentType.tokens = <<"application/json", "; charset=utf-8">>
    /\ log[attempt].readers = <<"json">>

\* C16: a call that terminates either resolves with a response whose ok is true
\* and whose status is in [200,300), or rejects with an HttpError; it never
\* resolves with a non-2xx status or a failure, nor rejects with another error.
C16_TypedOutcome ==
    /\ pc = "resolved" =>
          /\ result.kind = "response"
          /\ result.ok
          /\ result.status >= 200 /\ result.status < 300
          /\ result.data # NoData
          /\ log[attempt].settled = "ok"
    /\ pc = "rejected" =>
          /\ result.kind = "error"
          /\ log[attempt].settled = "failed"
          /\ log[attempt].error.cls = "HttpError"
          /\ log[attempt].error.name = "HttpError"
          /\ log[attempt].error.status = 0 \/ log[attempt].error.status = log[attempt].resp
    /\ Terminal <=> result.kind # "none"

C16_Witness ==
    /\ pc = "rejected"
    /\ log[attempt].thrown = NonErrorValue
    /\ result.message = "Unknown error"

\* the status the failure of attempt i carries, from what the transport did
FailureStatus(i) == IF log[i].resp # NoStatus /\ log[i].thrown = NoThrow THEN log[i].resp ELSE 0

\* C17: a call that rejects delivers the failure of its most recent attempt:
\* status and message are those of the last attempt made, never an earlier one's.
C17_LastFailureSurfaces ==
    pc = "rejected" =>
        /\ result.status = FailureStatus(attempt)
        /\ result.status = log[attempt].error.status
        /\ result.message = log[attempt].error.message

C17_Witness ==
    /\ pc = "rejected"
    /\ Len(log) = 2
    /\ log[1].resp = 500
    /\ log[2].resp = 404
    /\ result.status = 404

\* C18: getCurrentUser resolves to null iff the client's final failure has status
\* 401 or 403, resolves to the response data on success and rethrows every other
\* failure; the client itself rejects at the attempt answered 401 or 403, without
\* retrying it.
C18_CurrentUserSoftNull ==
    /\ pc = "resolved" =>
          /\ GetCurrentUser(result, NoError).kind = "return"
          /\ GetCurrentUser(result, NoError).value = result.data
          /\ GetCurrentUser(result, NoError).value # NullUser
    /\ pc = "rejected" =>
          LET out == GetCurrentUser(result, log[attempt].error)
              soft == result.status = 401 \/ result.status = 403
          IN  /\ soft <=> (out.kind = "return" /\ out.value = NullUser)
              /\ ~soft => /\ out.kind = "throw"
                          /\ out.error.status = result.status
                          /\ out.error.message = result.message
    /\ \A i \in 1..Len(log) :
          log[i].resp \in {401, 403} =>
              /\ i = Len(log)
              /\ pc = "rejected"
              /\ result.status = log[i].resp
              /\ retriesLeft = mergedRetries - (i - 1)

C18_Witness ==
    /\ pc = "rejected"
    /\ Len(log) = 1
    /\ mergedRetries = 1
    /\ log[1].resp = 403
    /\ GetCurrentUser(result, log[1].error).value = NullUser

NamesHeader(options, name) == \E h \in Get(options, "headers", {}) : h[1] = name

\* C12 as stated: for every call with a body present (any defined value, the
\* falsy ones included) on a client whose configured and per-call headers do not
\* name Content-Type, fetch receives JSON.stringify(body) as the body together
\* with the header Content-Type: application/json.
C12_BodySentAsJson ==
    ( /\ sent.made
      /\ sent.call.data.type # "undefined"
      /\ ~NamesHeader(client.configured, "Content-Type")
      /\ ~NamesHeader(sent.call.options, "Content-Type") ) =>
        /\ sent.body.present
        /\ sent.body.text = Stringify(sent.call.data)
        /\ <<"Content-Type", "application/json">> \in sent.headers

\* the client's configured default of an option, and what a call asks for
ConfiguredDefault(key, builtin) == Get(client.configured, key, builtin)
Expected(key, builtin) ==
    IF HasKey(sent.call.options, key)
    THEN Get(sent.call.options, key, builtin)
    ELSE ConfiguredDefault(key, builtin)

\* C13: the options an attempt uses are the client defaults with the per-call
\* options merged over them: the headers sent are the union of the default and
\* the per-call headers, the per-call value winning on a shared key, and timeout,
\* retries and retryDelay are the per-call value when given, else the client's.
C13_OptionsMerged ==
    sent.made =>
        LET defaults ==
                ConfiguredDefault("headers", {<<"Content-Type", "application/json">>,
                                              <<"Accept", "application/json">>})
            given == Get(sent.call.options, "headers", {})
        IN  /\ \A h \in given : h \in sent.headers
            /\ \A h \in defaults : (~\E g \in given : g[1] = h[1]) => h \in sent.headers
            /\ \A h \in sent.headers : h \in given \/ h \in defaults
            /\ \A h1, h2 \in sent.headers : h1[1] = h2[1] => h1 = h2
            /\ sent.timeout = Expected("timeout", 30000)
            /\ sent.retries = Expected("retries", 1)
            /\ sent.retryDelay = Expected("retryDelay", 1000)

C13_Witness ==
    /\ sent.made
    /\ client.configured = {<<"timeout", 5000>>, <<"retries", 3>>}
    /\ sent.call.options = {<<"headers", {<<"Accept", "text/plain">>}>>}
    /\ sent.headers = {<<"Content-Type", "application/json">>, <<"Accept", "text/plain">>}
    /\ sent.timeout = 5000
    /\ sent.retries = 3
    /\ sent.retryDelay = 1000

IsAbsolute(path) ==
    \/ StartsWith(path, <<"http", ":", "/", "/">>)
    \/ StartsWith(path, <<"https", ":", "/", "/">>)

RECURSIVE WithoutTrailingSlashes(_)
WithoutTrailingSlashes(str) ==
    IF str # <<>> /\ str[Len(str)] = "/"
    THEN WithoutTrailingSlashes(SubSeq(str, 1, Len(str) - 1))
    ELSE str

RECURSIVE WithoutLeadingSlashes(_)
WithoutLeadingSlashes(str) ==
    IF str # <<>> /\ str[1] = "/" THEN WithoutLeadingSlashes(Tail(str)) ELSE str

UsersOne == <<"https", ":", "/", "/", "api.example.com", "/", "users", "/", "1">>

\* C14: an absolute path (http:// or https://) goes to fetch verbatim; any other
\* path is joined to the base address with exactly one slash between them,
\* whether or not the base ends with a slash or the path starts with one; the
\* three example pairs all resolve to https://api.example.com/users/1.
C14_UrlResolution ==
    sent.made =>
        /\ IsAbsolute(sent.call.path) => sent.url = sent.call.path
        /\ ~IsAbsolute(sent.call.path) =>
              sent.url = WithoutTrailingSlashes(client.baseUrl) \o <<"/">>
                            \o WithoutLeadingSlashes(sent.call.path)
        /\ ( /\ WithoutTrailingSlashes(client.baseUrl) = <<"https", ":", "/", "/", "api.example.com">>
             /\ WithoutLeadingSlashes(sent.call.path) = <<"users", "/", "1">> ) =>
              sent.url = UsersOne

C14_Witness ==
    /\ sent.made
    /\ client.baseUrl = <<"https", ":", "/", "/", "api.example.com", "/">>
    /\ sent.call.path = <<"/", "users", "/", "1">>
    /\ sent.url = UsersOne

\* ------------------------------------------------------------------ C19, C20

GetInstanceCalls == {"getInstance", "getServiceRegistry"}

\* C19: after any sequence of getInstance / getServiceRegistry calls with any
\* apiBaseUrl arguments there is one registry only; every such call returns
\* it; the first call makes it with an HttpClient on the base URL it was
\* given, and no later step, whatever its apiBaseUrl, changes which registry
\* the instance is or the base URL of its client.
C19_SingletonKeepsFirstBaseUrl ==
    [][ /\ Len(registries') <= 1
        /\ returned'.op \in GetInstanceCalls =>
              /\ returned'.threw = NoThrow
              /\ returned'.value = instance'
              /\ instance' \in DOMAIN registries'
              /\ IF instance = NoInstance
                    THEN registries'[instance'].httpClient.baseUrl = returned'.arg
                    ELSE /\ instance' = instance
                         /\ registries' = registries
        /\ instance # NoInstance =>
              /\ instance' = instance
              /\ registries'[instance].httpClient = registries[instance].httpClient
      ]_allVars

\* a call after the first one, with a base URL other than the registry's client has
C19_Witness ==
    /\ returned.op \in GetInstanceCalls
    /\ instance # NoInstance
    /\ returned.value = instance
    /\ returned.arg # registries[instance].httpClient.baseUrl
    /\ registries[instance].httpClient.baseUrl # EmptyString

\* the DataService objects the registry r made for an entity type
DataServicesOf(r, entityType) ==
    {i \in DOMAIN serviceObjects :
        serviceObjects[i] = NewDataService(r, <<"/", entityType>>)}

\* C20: for every entity type, a getDataService call whose key is not yet
\* registered makes one DataService on "/" + type over the registry's client,
\* registers it and returns it; a call whose key is registered makes
\* nothing and returns what the key holds, so the registry never makes a
\* second DataService for a type and a registered key stays registered; and
\* getService with a key the registry does not hold throws instead of
\* returning undefined.
C20_DataServiceOncePerType ==
    [][ /\ \A r \in DOMAIN registries', t \in EntityTypes :
              Cardinality(DataServicesOf(r, t)') <= 1
        /\ \A r \in DOMAIN registries, key \in ServiceKeys :
              HasKey(registries[r].services, key) => HasKey(registries'[r].services, key)
        /\ returned'.op = "getDataService" =>
              LET r == returned'.registry
                  key == DataServiceKey(returned'.arg)
              IN  /\ returned'.threw = NoThrow
                  /\ returned'.value = Get(registries'[r].services, key, NoService)
                  /\ IF HasKey(registries[r].services, key)
                        THEN /\ serviceObjects' = serviceObjects
                             /\ returned'.value = Get(registries[r].services, key, NoService)
                        ELSE /\ serviceObjects' =
                                  Append(serviceObjects,
                                         NewDataService(r, <<"/", returned'.arg>>))
                             /\ returned'.value = Len(serviceObjects')
        /\ returned'.op = "getService" =>
              LET held == HasKey(registries[returned'.registry].services, returned'.arg)
              IN  /\ ~held => returned'.threw = NotFound(returned'.arg)
                  /\ held => returned'.threw = NoThrow /\ returned'.value # NoService
      ]_allVars

\* a later getDataService for a type returned the one DataService made for it,
\* with another type's DataService made in between
C20_Witness ==
    /\ returned.op = "getDataService"
    /\ returned.threw = NoThrow
    /\ returned.value \in DataServicesOf(returned.registry, returned.arg)
    /\ returned.value < Len(serviceObjects)
    /\ \E t \in EntityTypes \ {returned.arg} : DataServicesOf(returned.registry, t) # {}

\* getService threw for a key that was never registered
C20_WitnessNotFound ==
    /\ returned.op = "getService"
    /\ returned.threw = NotFound(returned.arg)

\* ------------------------------------------------------------------ C21, C22

\* what isEnabled(featureName) returns in the state
EnabledNow(featureName) == IsEnabled(featureFlagService.flags, overrides, featureName)
\* the configured flag of the feature is true
Configured(featureName) ==
    IF Get(featureFlagService.flags, featureName, NoValue) = True THEN True ELSE False
OwnNames == FeatureNames \ ObjectPrototypeKeys

OverrideThenReset(names) ==
    /\ flagReturned'.op = "isEnabled" /\ flagReturned'.arg \in names =>
          flagReturned'.value = EnabledNow(flagReturned'.arg)
    /\ flagReturned'.op = "override" =>
          \A f \in names : flagReturned'.arg = f => EnabledNow(f)' = flagReturned'.value
    /\ featureFlagService.made /\ flagReturned'.op \notin {"override", "resetOverrides"} =>
          \A f \in names : EnabledNow(f)' = EnabledNow(f)
    /\ flagReturned'.op = "override" =>
          \A f \in names \ {flagReturned'.arg} : EnabledNow(f)' = EnabledNow(f)
    /\ flagReturned'.op = "resetOverrides" =>
          \A f \in names : EnabledNow(f)' = Configured(f)'
    /\ featureFlagService'.made =>
          \A f \in names :
              ~HasKey(featureFlagService'.flags, f) /\ ~HasKey(overrides', f) =>
                  EnabledNow(f)' = False

\* C21: after override(f, v) isEnabled(f) returns v, whatever the configured
\* value, through every call but resetOverrides; after resetOverrides
\* isEnabled(f) is whether the configured flag is true, for every feature;
\* and a feature neither configured nor overridden is reported disabled.
C21_OverrideThenReset == [][OverrideThenReset(FeatureNames)]_allVars

\* the same, for the feature names no object inherits
C21_OnOwnNames == [][OverrideThenReset(OwnNames)]_allVars

ObservableTracksFlag(names) ==
    /\ \A p \in observables : p \in observables'
    /\ \A p \in observables', q \in observables' :
          (p[1] = q[1] \/ p[2] = q[2]) => p = q
    /\ flagReturned'.op = "observe" /\ HasKey(observables, flagReturned'.arg) =>
          /\ flagReturned'.value = Get(observables, flagReturned'.arg, 0)
          /\ observableValues' = observableValues
    /\ flagReturned'.op = "observe" =>
          flagReturned'.value = Get(observables', flagReturned'.arg, 0)
    /\ \A p \in observables' :
          p[1] \in names => observableValues'[p[2]] = EnabledNow(p[1])'

\* C22: after any sequence of observe, override and resetOverrides calls,
\* observe(f) returns the same observable for the same feature name, and the
\* current value of every observed feature's observable equals isEnabled(f).
C22_ObservableTracksFlag == [][ObservableTracksFlag(FeatureNames)]_allVars

\* the same, for the feature names no object inherits
C22_OnOwnNames == [][ObservableTracksFlag(OwnNames)]_allVars

\* an observed feature overridden against its configured value, then reset
C22_OwnNamesWitness ==
    /\ flagReturned.op = "resetOverrides"
    /\ \E p \in observables :
          p[1] \in OwnNames /\ Configured(p[1]) = True /\ observableValues[p[2]] = True
    /\ Cardinality(observables) > 1

\* ------------------------------------------------------------------ C23

\* initialized and enabled, sampling every metric
MonitoringOn ==
    /\ ~MonitoringOff(monitoringConfig, initialized)
    /\ Get(monitoringConfig, "sampleRate", 0) = 100

ReportingCalls == {"measurePerformance", "reportError", "reportMetric", "setUser", "stop"}

\* the measurements of the set ids: each stop function reports one metric at
\* its first invocation and none later
StopReportsOnce(ids) ==
    /\ monitoringCall'.op = "stop" /\ monitoringCall'.stop \in ids /\ MonitoringOn =>
          \A id \in DOMAIN stops :
              id = monitoringCall'.stop /\ ~stops[id].noop =>
                  monitoringCall'.reported = IF stops[id].invoked = 0 THEN 1 ELSE 0
    /\ MonitoringOff(monitoringConfig, initialized)
          /\ monitoringCall'.op \in ReportingCalls => monitoringCall'.reported = 0

\* C23: while the service is initialized and enabled with sample rate 1,
\* every stop function measurePerformance returned reports exactly one metric
\* the first time it is invoked and nothing later, overlapping measurements
\* of one name included; while the service is not initialized or not enabled
\* measurePerformance, reportError, reportMetric and setUser report nothing.
C23_StopReportsOnce == [][StopReportsOnce(DOMAIN stops)]_allVars

\* the stop functions whose name no other measurement shares
AloneOnName == {id \in DOMAIN stops :
                   \A other \in DOMAIN stops : stops[other].name = stops[id].name => other = id}

\* the same, for measurements that share their name with no other
C23_OnDistinctNames == [][StopReportsOnce(AloneOnName)]_allVars

\* two measurements of different names, overlapping, both stopped and reported
C23_DistinctNamesWitness ==
    /\ MonitoringOn
    /\ Len(stops) = 2 /\ AloneOnName = {1, 2}
    /\ \A id \in DOMAIN stops : ~stops[id].noop /\ stops[id].invoked > 0
    /\ monitoringCall = MonitoringCall("stop", 1, 1)

\* ------------------------------------------------------------------ C24, C25

\* the attempts of the call that have not settled
Unsettled == {k \in DOMAIN log : log[k].settled = "pending"}

\* C24: within one call at most one attempt is in flight: every attempt but
\* the last has settled, and attempt k+1 starts only from the retry delay
\* scheduled after attempt k failed, once that delay has elapsed.
C24_OneAttemptInFlight ==
    [][ /\ Cardinality(Unsettled') <= 1
        /\ Unsettled' \subseteq {Len(log')}
        /\ InFlight' <=> Unsettled' # {}
        /\ (Len(log') = Len(log) + 1 /\ Len(log) >= 1) =>
              /\ pc = "delay"
              /\ Unsettled = {}
              /\ log[Len(log)].settled = "failed"
              /\ log'[Len(log')].delays # <<>>
      ]_vars

\* a third attempt in flight after two that failed
C24_Witness ==
    /\ Len(log) = 3
    /\ pc = "fetching"
    /\ Unsettled = {3}

\* C25: before every re-attempt exactly one delay is awaited, of the call's
\* retryDelay whatever the number of the retry, and every re-attempt gives
\* fetch the method, URL, headers and body of the first attempt.
C25_ConstantDelaySameRequest ==
    \A k \in DOMAIN log :
        /\ log[k].delays = IF k = 1 THEN <<>> ELSE <<Get(mergedOptions, "retryDelay", 1000)>>
        /\ log[k].sent = log[1].sent
        /\ log[k].sent.method = call.method
        /\ log[k].sent.url = BuildUrl(client.baseUrl, call.path)
        /\ log[k].sent.body = RequestBody(call.data)

\* the second retry of a call has started
C25_Witness ==
    /\ Len(log) = 3
    /\ log[3].delays = <<1000>>
    /\ log[3].sent.body.present

\* ------------------------------------------------------------------ C26

\* C26: when every attempt's transport settles or its timeout timer fires, and
\* every retry delay's timer fires, a call that was entered reaches a terminal
\* state, resolved or rejected, with isLoading reset: it stays neither in an
\* attempt nor in the retry delay for ever.
C26_CallTerminates == InCall ~> (Terminal /\ ~isLoading)

\* a call rejected after its last retry, isLoading reset
C26_Witness ==
    /\ pc = "rejected"
    /\ Len(log) = MaxRetries + 1
    /\ ~isLoading

\* ------------------------------------------------------------------ C28, C29

\* operation k settles in the step
Settles(k) ==
    /\ k \in DOMAIN operations
    /\ operations[k].settled = "pending"
    /\ operations'[k].settled # "pending"

\* C28: a successful create appends the returned item; a successful update
\* replaces exactly the items of the given id and inserts nothing; a
\* successful delete removes exactly the items of that id; a failed HTTP call
\* leaves items unchanged and its error is thrown on to the caller; either way
\* the service's isLoading is false once the operation has settled.
C28_ItemsFollowOutcome ==
    [][ \A k \in DOMAIN operations' :
          Settles(k) =>
            LET op == operations'[k]
            IN  /\ dataLoading' = FALSE
                /\ op.settled = "resolved" /\ op.kind = "create" =>
                      items' = items \o <<op.returned>>
                /\ op.settled = "resolved" /\ op.kind = "update" =>
                      /\ Len(items') = Len(items)
                      /\ \A j \in DOMAIN items :
                            items'[j] = IF items[j].id = op.id THEN op.returned ELSE items[j]
                /\ op.settled = "resolved" /\ op.kind = "delete" =>
                      items' = SelectSeq(items, LAMBDA item : item.id # op.id)
                /\ op.settled = "rejected" =>
                      /\ items' = items
                      /\ op.thrown \in HttpFailures
      ]_allVars

\* an update that found no item of its id and inserted nothing, then a failed call
C28_Witness ==
    /\ Len(operations) = 3
    /\ operations[2].kind = "update" /\ operations[2].settled = "resolved"
    /\ operations[3].settled = "rejected"
    /\ Len(items) = 1
    /\ items[1].id # operations[2].id

AllSettled == \A k \in DOMAIN operations : operations[k].settled # "pending"
CreatedIds ==
    {operations[k].returned.id :
        k \in {j \in DOMAIN operations :
                  operations[j].kind = "create" /\ operations[j].settled = "resolved"}}
DeletedIds ==
    {operations[k].id :
        k \in {j \in DOMAIN operations :
                  operations[j].kind = "delete" /\ operations[j].settled = "resolved"}}

\* C29: whatever the order in which the responses of overlapping successful
\* create, update and delete operations arrive, once all have settled items
\* holds every created item that was not deleted.
C29_NoLostUpdate ==
    AllSettled =>
        \A id \in CreatedIds \ DeletedIds : \E j \in DOMAIN items : items[j].id = id

\* two creates made before either response, answered in the other order,
\* and an update made with them
C29_Witness ==
    /\ AllSettled
    /\ Len(operations) = 3
    /\ \A k \in DOMAIN operations :
          operations[k].atCall = <<>> /\ operations[k].settled = "resolved"
    /\ operations[1].kind = "create" /\ operations[2].kind = "create"
    /\ operations[3].kind = "update"
    /\ Len(items) = 2
    /\ items[1] = Item(operations[3].id, 1)
    /\ items[1].id = operations[2].returned.id
    /\ items[2] = operations[1].returned

\* ------------------------------------------------------------------ C27

\* the callers whose call is under way
Pending == {caller \in Callers : overlapping[caller].pc \in {"fetching", "delay"}}

\* C27: isLoading is a plain flag on the shared client: entering a call sets
\* it, the settling of any call clears it whatever other call is under way,
\* so it can be false while a call is still in flight.
C27_LoadingIsPlainFlag ==
    [][ \A caller \in Callers :
          /\ (overlapping[caller].pc \notin {"fetching", "delay"}
                /\ overlapping'[caller].pc = "fetching") => isLoading' = TRUE
          /\ (overlapping[caller].pc = "fetching"
                /\ overlapping'[caller].pc \in {"resolved", "rejected"}) => isLoading' = FALSE
          /\ (overlapping[caller].pc = "fetching" /\ overlapping'[caller].pc = "delay") =>
                isLoading' = isLoading
      ]_allVars

\* isLoading is false while a call is in flight
C27_Witness ==
    /\ isLoading = FALSE
    /\ Pending # {}


\* the event is in the script's trace
Happened(event) == \E i \in DOMAIN trace : trace[i] = event

\* every occurrence of the later event has the earlier one before it
OnlyAfter(earlier, later) ==
    \A j \in DOMAIN trace :
        trace[j] = later => \E i \in 1..(j - 1) : trace[i] = earlier

\* the four parts of the deployment script's ordering, for the environments asked
DeployOrder(environments) ==
    environment \in environments =>
        /\ (deployPc # "argv" /\ environment \notin validEnvironments) =>
               /\ ~Happened("build started")
               /\ ~Happened("deploy started")
               /\ deployPc = "exited" => exitCode = 1
        /\ OnlyAfter("build completed", "deploy started")
        /\ OnlyAfter("deploy completed", "Successfully deployed")
        /\ (deployPc = "exited" /\ Happened("deploy failed")) =>
               /\ Happened("Deployment failed")
               /\ exitCode = 1

\* C30: an environment argument outside development, staging and production
\* makes the script exit with code 1 before any build or deploy command runs;
\* for a valid environment the deploy command runs only after the build
\* command has completed, "Successfully deployed" is printed only after the
\* deploy command has completed successfully, on the staging path too, and a
\* failing deploy command always ends in "Deployment failed" with exit code 1
C30_DeployOrder == DeployOrder(Arguments \cup {""})

\* the same ordering holds on the paths that run the deploy command inside
\* the try block, which is every environment but staging
C30_OnDirectPath == DeployOrder({env \in Arguments \cup {""} : ~DeploysZip(env)})

\* a direct deployment has failed and the script has exited
C30_DirectPathWitness ==
    /\ environment = "production"
    /\ deployPc = "exited"
    /\ Happened("deploy failed")
====
